---- MODULE Spec2Model ----
(***************************************************************************)
(* A model of the wget clone (src/main.go): the flag stage of main with    *)
(* parseRateLimit, the recursive mirroring engine (Mirror, MirrorWebsite), *)
(* the single download (DownloadFile) and the batch download               *)
(* (DownloadMultipleFiles), the signal handler, the rate-limited reader    *)
(* (RateLimitedReader.Read), and the pure helpers they call (extractLinks, *)
(* rewriteHTML, shouldReject, the URL-to-local-path mapping).              *)
(*                                                                         *)
(* Strings are sequences of one-character strings, so that extensions,     *)
(* prefixes, suffixes and substrings are computed as the Go code computes  *)
(* them.  A URL is a record [scheme, host, path]; the record stands for    *)
(* the URL string (url.Parse and URL.String are inverse on the URLs of     *)
(* the model, which carry no port, query or fragment), so two URLs are the *)
(* same key of the visited map exactly when the records are equal.         *)
(*                                                                         *)
(* Every goroutine is a task with a program position; a step of a task is  *)
(* one access to what the goroutines share (the flag, the visited map,     *)
(* the WaitGroup, the semaphore channel, the network, the file system)     *)
(* together with the local computation around it.                          *)
(*                                                                         *)
(* A fetch is one call of client.Do for the task's URL: the requests the   *)
(* HTTP client may add by itself when it follows a redirect are not        *)
(* modelled.  In a mirror run the file system never refuses a directory   *)
(* or a file (os.MkdirAll and os.Create succeed) and every URL parses; a   *)
(* download may be given a URL that does not parse and a file system that  *)
(* refuses new files.  An HTML document is the sequence of its elements    *)
(* that carry an attribute, each [tag, key, val] with val a URL reference; *)
(* what html.Parse and html.Render do to the rest of the text is not       *)
(* modelled.                                                               *)
(***************************************************************************)
EXTENDS Naturals, Integers, Sequences, FiniteSets, TLC

\* ------------------------------------------------------------- bounds

\* The longest time, in ticks, that a Read of the underlying reader takes,
\* and that time.Sleep returns late.
MaxDelay == 1

\* The longest -R list and the longest -X list explored.
MaxListLen == 2

\* The largest --max-concurrent value explored (the flag's default is 5).
MaxConc == 3
\* The largest -l (maximum depth) value explored (the flag's default is 3).
MaxDepthBound == 2

\* ------------------------------------------------------------ strings

Slash == "/"
Dot == "."

IndexHtml == <<"i", "n", "d", "e", "x", ".", "h", "t", "m", "l">>
FallbackDir == <<"m", "i", "r", "r", "o", "r", "e", "d", "_", "s", "i", "t", "e">>

\* strings.HasPrefix
HasPrefix(s, p) == Len(s) >= Len(p) /\ SubSeq(s, 1, Len(p)) = p

\* strings.HasSuffix
HasSuffix(s, p) == Len(s) >= Len(p) /\ SubSeq(s, Len(s) - Len(p) + 1, Len(s)) = p

\* strings.TrimPrefix: removes one leading occurrence of p
TrimPrefix(s, p) == IF HasPrefix(s, p) THEN SubSeq(s, Len(p) + 1, Len(s)) ELSE s

\* strings.Contains
Contains(s, p) == \E i \in 1..(Len(s) + 1) : HasPrefix(SubSeq(s, i, Len(s)), p)

\* strings.ToLower on the alphabet of the model
LowerChar(c) ==
    CASE c = "P" -> "p"
      [] c = "N" -> "n"
      [] c = "G" -> "g"
      [] c = "H" -> "h"
      [] OTHER -> c

ToLower(s) == [i \in 1..Len(s) |-> LowerChar(s[i])]

\* filepath.Ext: the suffix beginning at the final dot of the final
\* slash-separated element of the path; empty when there is no dot.
RECURSIVE ExtFrom(_, _)
ExtFrom(s, i) ==
    IF i < 1 \/ s[i] = Slash THEN <<>>
    ELSE IF s[i] = Dot THEN SubSeq(s, i, Len(s))
    ELSE ExtFrom(s, i - 1)

Ext(s) == ExtFrom(s, Len(s))

\* strings.Split(s, "/") without the empty elements: s is scanned from
\* position i, cur is the element being read and acc the elements read.
RECURSIVE ElementsFrom(_, _, _, _)
ElementsFrom(s, i, cur, acc) ==
    IF i > Len(s) THEN (IF cur = <<>> THEN acc ELSE Append(acc, cur))
    ELSE IF s[i] = Slash
         THEN ElementsFrom(s, i + 1, <<>>, IF cur = <<>> THEN acc ELSE Append(acc, cur))
    ELSE ElementsFrom(s, i + 1, Append(cur, s[i]), acc)

Elements(s) == ElementsFrom(s, 1, <<>>, <<>>)

\* The element stack of filepath.Clean on a relative path: "." elements are
\* dropped, ".." removes the element before it (and is kept at the front).
RECURSIVE CleanElems(_, _)
CleanElems(todo, acc) ==
    IF todo = <<>> THEN acc
    ELSE LET e == Head(todo) IN
         IF e = <<Dot>> THEN CleanElems(Tail(todo), acc)
         ELSE IF e = <<Dot, Dot>> /\ acc # <<>> /\ acc[Len(acc)] # <<Dot, Dot>>
              THEN CleanElems(Tail(todo), SubSeq(acc, 1, Len(acc) - 1))
         ELSE CleanElems(Tail(todo), Append(acc, e))

RECURSIVE JoinElems(_)
JoinElems(es) ==
    IF es = <<>> THEN <<>>
    ELSE IF Len(es) = 1 THEN es[1]
    ELSE es[1] \o <<Slash>> \o JoinElems(Tail(es))

\* filepath.Join of relative elements: the non-empty elements joined by a
\* slash, then cleaned; the empty string when every element is empty.
RECURSIVE ConcatWithSlash(_)
ConcatWithSlash(parts) ==
    IF parts = <<>> THEN <<>>
    ELSE IF Head(parts) = <<>> THEN ConcatWithSlash(Tail(parts))
    ELSE Head(parts) \o <<Slash>> \o ConcatWithSlash(Tail(parts))

\* The element of a one-element set.  Only({e(x) : x \in {v}}) is e(v) with
\* v evaluated once, however often e uses it.
Only(S) == CHOOSE x \in S : TRUE

Cleaned(raw) ==
    Only({IF es = <<>> THEN <<Dot>> ELSE JoinElems(es) : es \in {CleanElems(Elements(raw), <<>>)}})

FilepathJoin(parts) ==
    Only({IF raw = <<>> THEN <<>> ELSE Cleaned(raw) : raw \in {ConcatWithSlash(parts)}})

\* filepath.Dir of a relative path: what precedes the last slash, cleaned
\* ("." when nothing is left).
RECURSIVE LastSlash(_, _)
LastSlash(s, i) == IF i < 1 THEN 0 ELSE IF s[i] = Slash THEN i ELSE LastSlash(s, i - 1)

FilepathDir(p) == Only({Cleaned(SubSeq(path, 1, LastSlash(path, Len(path)))) : path \in {p}})

\* The elements of a cleaned relative path ("." has none).
CleanedElems(p) == CleanElems(Elements(p), <<>>)

\* The length of the longest common prefix of two element lists.
RECURSIVE CommonPrefix(_, _, _)
CommonPrefix(b, t, n) ==
    IF n < Len(b) /\ n < Len(t) /\ b[n + 1] = t[n + 1] THEN CommonPrefix(b, t, n + 1) ELSE n

DotDot == <<Dot, Dot>>

\* filepath.Rel of relative paths: "." when the cleaned paths are equal; an
\* error when the first element of the base that the target does not share
\* is ".."; otherwise one ".." for every element of the base beyond the
\* common prefix, followed by the rest of the target.
RelFails(basepath, targpath) ==
    \E b \in {CleanedElems(basepath)} : \E t \in {CleanedElems(targpath)} :
        /\ b # t
        /\ CommonPrefix(b, t, 0) < Len(b)
        /\ b[CommonPrefix(b, t, 0) + 1] = DotDot

FilepathRel(basepath, targpath) ==
    Only({Only({IF b = t THEN <<Dot>>
                ELSE Only({JoinElems([i \in 1..(Len(b) - n) |-> DotDot] \o SubSeq(t, n + 1, Len(t))) :
                           n \in {CommonPrefix(b, t, 0)}}) :
                t \in {CleanedElems(targpath)}}) :
          b \in {CleanedElems(basepath)}})

\* ---------------------------------------------------------------- URLs

URL(s, h, p) == [scheme |-> s, host |-> h, path |-> p]

\* URL.Hostname
Hostname(u) == u.host

\* strings.Cut(remain, "/") repeated: the pieces of s between its slashes,
\* the empty ones included.
RECURSIVE CutFrom(_, _, _, _)
CutFrom(s, i, cur, acc) ==
    IF i > Len(s) THEN Append(acc, cur)
    ELSE IF s[i] = Slash THEN CutFrom(s, i + 1, <<>>, Append(acc, cur))
    ELSE CutFrom(s, i + 1, Append(cur, s[i]), acc)

\* The loop of net/url's resolvePath over the pieces: dst begins with a
\* slash; "." is dropped; ".." removes what follows the last slash written
\* after the first; any other piece is written after a slash, except the
\* first piece.
RECURSIVE ResolveFrom(_, _, _, _)
ResolveFrom(elems, k, dst, first) ==
    IF k > Len(elems)
    THEN Only({IF Len(r) > 1 /\ r[2] = Slash THEN Tail(r) ELSE r :
               r \in {IF elems[Len(elems)] \in {<<Dot>>, DotDot} THEN Append(dst, Slash) ELSE dst}})
    ELSE IF elems[k] = <<Dot>> THEN ResolveFrom(elems, k + 1, dst, FALSE)
    ELSE IF elems[k] = DotDot
         THEN Only({IF index = 0
                    THEN ResolveFrom(elems, k + 1, <<Slash>>, TRUE)
                    ELSE ResolveFrom(elems, k + 1, <<Slash>> \o SubSeq(Tail(dst), 1, index - 1), first) :
                    index \in {LastSlash(Tail(dst), Len(dst) - 1)}})
    ELSE ResolveFrom(elems, k + 1, dst \o (IF first THEN <<>> ELSE <<Slash>>) \o elems[k], FALSE)

\* net/url's resolvePath: the reference's path merged with the base's path
\* up to its last slash (unless it is empty or begins with a slash), with
\* its dot segments removed; the result begins with a slash unless it is
\* empty.
ResolvePath(base, ref) ==
    Only({IF full = <<>> THEN <<>> ELSE ResolveFrom(CutFrom(full, 1, <<>>, <<>>), 1, <<Slash>>, TRUE) :
          full \in {IF ref = <<>> THEN base
                    ELSE IF Head(ref) # Slash
                         THEN SubSeq(base, 1, LastSlash(base, Len(base))) \o ref
                    ELSE ref}})

\* URL.ResolveReference: a reference with a scheme or a host keeps them (and
\* takes the base's scheme when it has none); any other reference takes the
\* base's scheme and host, and its path is resolved against the base's.
ResolveReference(base, ref) ==
    IF ref.scheme # <<>> \/ ref.host # <<>>
    THEN URL(IF ref.scheme = <<>> THEN base.scheme ELSE ref.scheme, ref.host,
             ResolvePath(ref.path, <<>>))
    ELSE URL(base.scheme, base.host, ResolvePath(base.path, ref.path))

\* ------------------------------------------------------- the helpers

\* extractLinks' switch on the element kind: the attribute that carries the
\* link ("" when the element carries none).
LinkAttr(tag) ==
    CASE tag \in {"a", "link"} -> "href"
      [] tag \in {"img", "script"} -> "src"
      [] tag = "form" -> "action"
      [] OTHER -> ""

HttpScheme == <<"h", "t", "t", "p">>
HttpsScheme == <<"h", "t", "t", "p", "s">>

\* extractLinks: in document order, the attribute values of the link-carrying
\* elements, resolved against baseURL, keeping the http and https ones.
RECURSIVE extractLinks(_, _)
extractLinks(body, baseURL) ==
    IF body = <<>> THEN <<>>
    ELSE LET e        == Head(body)
             resolved == ResolveReference(baseURL, e.val)
             here     == IF /\ LinkAttr(e.tag) # ""
                            /\ e.key = LinkAttr(e.tag)
                            /\ resolved.scheme \in {HttpScheme, HttpsScheme}
                         THEN <<resolved>>
                         ELSE <<>>
         IN  here \o extractLinks(Tail(body), baseURL)

\* url.Parse's getScheme fails ("missing protocol scheme") on a string that
\* begins with a colon; shouldReject and http.NewRequest receive the error.
ParseFails(u) == u.scheme = <<>> /\ HasPrefix(u.path, <<":">>)

\* shouldReject with a loop that keeps the outcome of the last entry of each
\* list only.
shouldRejectByLastEntry(u, reject, exclude) ==
    \/ ParseFails(u)
    \/ reject # <<>> /\ ToLower(Ext(u.path)) = <<Dot>> \o ToLower(reject[Len(reject)])
    \/ exclude # <<>> /\ Contains(u.path, exclude[Len(exclude)])

\* shouldReject with strings.HasSuffix in the place of the comparison with
\* the extension.
shouldRejectBySuffix(u, reject, exclude) ==
    \/ ParseFails(u)
    \/ \E k \in 1..Len(reject) : HasSuffix(ToLower(u.path), ToLower(reject[k]))
    \/ \E k \in 1..Len(exclude) : Contains(u.path, exclude[k])

\* shouldReject: the URL does not parse, or the extension of its path
\* equals, in lower case, a dot followed by a reject entry in lower case, or
\* the path contains an exclude entry.
shouldReject(u, reject, exclude) ==
    \/ ParseFails(u)
    \/ \E k \in 1..Len(reject) : ToLower(Ext(u.path)) = <<Dot>> \o ToLower(reject[k])
    \/ \E k \in 1..Len(exclude) : Contains(u.path, exclude[k])

\* The link loop without its host test.
SameHostAlways(link, baseURL) == TRUE

\* The host test of MirrorWebsite's link loop.
SameHost(link, baseURL) == Hostname(link) = Hostname(baseURL)

\* The local file of a URL, as MirrorWebsite computes it: the URL's path
\* without its leading slash, with index.html joined to it when it ends in
\* a slash or has no extension, joined to the mirror directory and the
\* URL's hostname.
RelativeURLPath(u) ==
    Only({IF HasSuffix(trimmed, <<Slash>>) \/ Ext(trimmed) = <<>>
          THEN FilepathJoin(<<trimmed, IndexHtml>>)
          ELSE trimmed : trimmed \in {TrimPrefix(u.path, <<Slash>>)}})

LocalFilePath(u, baseDir) ==
    Only({FilepathJoin(<<baseDir, Hostname(u), rel>>) : rel \in {RelativeURLPath(u)}})

\* rewriteHTML's switch on the element kind: the attributes it rewrites.
RewrittenAttr(tag, key) ==
    \/ tag \in {"a", "link"} /\ key = "href"
    \/ tag \in {"img", "script"} /\ key = "src"

\* rewriteHTML's local path of the current document: the hostname joined to
\* the URL's path without its leading slash, with index.html joined to it
\* when the result ends in a slash or has no extension.
CurrentFileLocalPath(currentURL) ==
    Only({IF HasSuffix(joined, <<Slash>>) \/ Ext(joined) = <<>>
          THEN FilepathJoin(<<joined, IndexHtml>>)
          ELSE joined :
          joined \in {FilepathJoin(<<Hostname(currentURL), TrimPrefix(currentURL.path, <<Slash>>)>>)}})

\* rewriteHTML's local path of a resolved link.
LinkLocalPath(resolvedURL) ==
    Only({FilepathJoin(<<Hostname(resolvedURL), rel>>) : rel \in {RelativeURLPath(resolvedURL)}})

\* The value rewriteHTML gives to a link attribute: the value is resolved
\* against the current URL; when the result has the base URL's hostname the
\* value becomes the link's local path relative to the directory of the
\* current document's local path (or, when filepath.Rel fails, a slash
\* followed by the link's local path); otherwise the value is kept.
RewrittenVal(val, currentURL, baseURL) ==
    Only({IF Hostname(resolvedURL) = Hostname(baseURL)
          THEN Only({Only({URL(<<>>, <<>>, IF RelFails(dir, localPath)
                                          THEN <<Slash>> \o localPath
                                          ELSE FilepathRel(dir, localPath)) :
                           dir \in {FilepathDir(CurrentFileLocalPath(currentURL))}}) :
                     localPath \in {LinkLocalPath(resolvedURL)}})
          ELSE val :
          resolvedURL \in {ResolveReference(currentURL, val)}})

\* rewriteHTML: the document with the values of its href attributes (a,
\* link) and src attributes (img, script) rewritten.
rewriteHTML(content, currentURL, baseURL) ==
    [i \in 1..Len(content) |->
        IF RewrittenAttr(content[i].tag, content[i].key)
        THEN [content[i] EXCEPT !.val = RewrittenVal(content[i].val, currentURL, baseURL)]
        ELSE content[i]]

\* Mirror's choice of the mirror directory.
MirrorBaseDirOf(u) == IF Hostname(u) = <<>> THEN FallbackDir ELSE Hostname(u)

\* ------------------------------------------------------- the servers

HostH == <<"h">>
HostX == <<"x">>
HostIO == <<"h", ".", "i", "o">>

PathA == <<"/", "a">>
PathB == <<"/", "b", "/">>
PathC == <<"/", "c">>
PathD == <<"/", "d">>
PathE == <<"/", "e">>
PathImg == <<"/", "p", ".", "p", "n", "g">>
PathR == <<"/", "r", ".", "t", "x", "t">>
PathAX == <<"/", "a", "/", "x", ".", "t", "x", "t">>
PathBX == <<"/", "b", "/", "x", ".", "t", "x", "t">>
PathT == <<"/", "t", ".", "b", "i", "n">>
PathUp == <<"/", ".", ".", "/", ".", ".", "/", "r", ".", "t", "x", "t">>
PathBC == <<"/", "b", "/", "c">>

U(p) == URL(HttpScheme, HostH, p)
Ref(p) == URL(<<>>, <<>>, p)
Elem(t, k, v) == [tag |-> t, key |-> k, val |-> v]

UIO(p) == URL(HttpScheme, HostIO, p)
RootPlain == U(<<>>)
RootIO == UIO(<<>>)
RootSlash == U(<<Slash>>)
ExternalE == URL(HttpScheme, HostX, PathE)
MailTo == URL(<<"m", "a", "i", "l", "t", "o">>, <<>>, <<>>)

\* A response: err says that client.Do failed, cut that reading the body
\* fails before its end.
Page(body) == [status |-> 200, html |-> TRUE, body |-> body, err |-> FALSE, cut |-> FALSE]
Blob == [status |-> 200, html |-> FALSE, body |-> <<>>, err |-> FALSE, cut |-> FALSE]
Status(n) == [status |-> n, html |-> FALSE, body |-> <<>>, err |-> FALSE, cut |-> FALSE]
TransportError == [status |-> 0, html |-> FALSE, body |-> <<>>, err |-> TRUE, cut |-> FALSE]
Truncated == [status |-> 200, html |-> FALSE, body |-> <<>>, err |-> FALSE, cut |-> TRUE]

\* A one-page site with two internal links and one external link.
ScenarioHome ==
    <<Elem("a", "href", Ref(PathA)),
      Elem("a", "href", Ref(PathB)),
      Elem("a", "href", ExternalE)>>

\* The home page of a site whose pages share a child that is missing and
\* link back to the home page.
GraphHome ==
    <<Elem("a", "href", Ref(PathA)),
      Elem("link", "href", Ref(PathB)),
      Elem("a", "href", MailTo)>>

\* The home page of a site with an image that the network may fail on, a
\* page without links and a link to another host.
GalleryHome ==
    <<Elem("img", "src", Ref(PathImg)),
      Elem("a", "href", Ref(PathB)),
      Elem("script", "src", ExternalE),
      Elem("img", "alt", Ref(PathD))>>

\* The home page of a site, served under a hostname with a dot, whose first
\* link is missing and whose second page links to the third.
DocsHome ==
    <<Elem("a", "href", Ref(PathC)),
      Elem("a", "href", Ref(PathA)),
      Elem("a", "href", Ref(PathB))>>

\* The home page of a site whose page in a directory links to a page beside
\* it with a relative link.
RelativeHome ==
    <<Elem("a", "href", Ref(PathB)),
      Elem("a", "href", ExternalE)>>

\* The responses the server of site s may give to a GET of u.
Responses(s, u) ==
    IF s = "files" THEN
        IF Hostname(u) # HostH THEN {Page(<<>>)}
        ELSE CASE u.path \in {<<>>, <<Slash>>} -> {Page(<<>>)}
               [] u.path \in {PathR, PathAX, PathBX, PathUp} -> {Blob}
               [] u.path = PathT -> {Truncated}
               [] OTHER -> {Status(404)}
    ELSE IF s = "docs" THEN
        IF Hostname(u) # HostIO THEN {Page(<<>>)}
        ELSE CASE u.path \in {<<>>, <<Slash>>} -> {Page(DocsHome)}
               [] u.path = PathA -> {Page(<<Elem("a", "href", Ref(PathB))>>)}
               [] u.path = PathB -> {Page(<<>>)}
               [] u.path = PathC -> {Status(404)}
               [] OTHER -> {Status(500)}
    ELSE IF Hostname(u) # HostH THEN {Page(<<>>)}
    ELSE IF s = "relative" THEN
        CASE u.path \in {<<>>, <<Slash>>} -> {Page(RelativeHome)}
          [] u.path = PathB -> {Page(<<Elem("a", "href", Ref(<<"c">>))>>)}
          [] u.path \in {PathC, PathBC} -> {Page(<<>>)}
          [] OTHER -> {Status(404)}
    ELSE IF s = "scenario" THEN
        CASE u.path \in {<<>>, <<Slash>>} -> {Page(ScenarioHome)}
          [] u.path \in {PathA, PathB} -> {Page(<<>>)}
          [] OTHER -> {Status(404)}
    ELSE IF s = "graph" THEN
        CASE u.path \in {<<>>, <<Slash>>} -> {Page(GraphHome)}
          [] u.path = PathA ->
                {Page(<<Elem("a", "href", Ref(PathC)), Elem("a", "href", Ref(<<Slash>>))>>)}
          [] u.path = PathB -> {Page(<<Elem("form", "action", Ref(<<"c">>))>>)}
          [] u.path = PathC -> {Status(404)}
          [] OTHER -> {Status(500)}
    ELSE
        CASE u.path \in {<<>>, <<Slash>>} -> {Page(GalleryHome)}
          [] u.path = PathB -> {Page(<<>>)}
          [] u.path = PathImg -> {Blob, TransportError}
          [] OTHER -> {Status(404)}

NoFilter == [reject |-> <<>>, exclude |-> <<>>]
RejectPngHtml == [reject |-> <<<<"P", "N", "G">>, <<"h", "t", "m", "l">>>>, exclude |-> <<>>]
ExcludeB == [reject |-> <<>>, exclude |-> <<<<"/", "b">>>>]

\* The runs explored: the server, the root URL and the -R and -X lists.
Run(s, u, f) == [site |-> s, root |-> u, filter |-> f]

Runs ==
    {Run("scenario", RootPlain, NoFilter),
     Run("graph", RootPlain, NoFilter),
     Run("gallery", RootPlain, NoFilter),
     Run("gallery", RootPlain, RejectPngHtml),
     Run("gallery", RootPlain, ExcludeB),
     Run("gallery", U(PathImg), RejectPngHtml),
     Run("docs", RootIO, NoFilter),
     Run("docs", UIO(PathD), NoFilter),
     Run("files", U(PathUp), NoFilter)}

\* --------------------------------------------------------------- state

VARIABLES
    site,           \* the server the run talks to
    rootURL,        \* Mirror's urlStr: the root of the run, and every task's baseURL
    maxConcurrent,  \* --max-concurrent: the capacity of sem
    maxDepth,       \* -l
    reject,         \* -R
    exclude,        \* -X
    mainpc,         \* where Mirror (the main goroutine) is
    mirrorBaseDir,  \* w.mirrorBaseDir
    tasks,          \* the worker goroutines: spawn path |-> [url, depth, pc, status, html, body, links, i]
    sem,            \* the number of units held in the semaphore channel
    wg,             \* the WaitGroup's counter
    visited,        \* the keys of the visited map
    gets,           \* the GET requests issued: [task, url]
    writes,         \* the files created and written: [task, url, path, content]
    interrupted,    \* w.interrupted
    exited,         \* the process has ended
    exitCode,       \* the status the process ended with (-1 while it runs)
    mode,           \* what main was asked for: "mirror", "batch" (-i) or "single"
    urls,           \* the URLs of the input file (batch), or the one URL given (single)
    output,         \* -O
    directory,      \* -P
    disk,           \* whether the file system accepts new files and directories
    args,           \* flag.Args: the arguments that follow the flags
    rateLimitStr,   \* --rate-limit
    dls,            \* the calls of DownloadFile: index |-> [url, pc, status, err, path, said]
    successful,     \* DownloadMultipleFiles' counter
    mu,             \* DownloadMultipleFiles' mutex is held
    summary,        \* the summary line printed (<<>> before that)
    call,           \* a helper called on its own: its name and its arguments
    results,        \* what the calls of that helper returned, the latest last
    now             \* the clock time.Now reads, in ticks

params == <<site, rootURL, maxConcurrent, maxDepth, reject, exclude,
            mode, urls, output, directory, disk, args, rateLimitStr>>
shared == <<sem, wg, visited, gets, writes>>
download == <<dls, successful, mu, summary>>
helper == <<call, results, now>>
vars == <<params, mainpc, mirrorBaseDir, tasks, shared, interrupted, exited, exitCode, download,
          helper>>

\* No helper is called on its own.
NoCall == [fn |-> ""]

Init ==
    /\ \E r \in Runs :
          /\ site = r.site
          /\ rootURL = r.root
          /\ reject = r.filter.reject
          /\ exclude = r.filter.exclude
    /\ maxConcurrent \in 1..MaxConc
    /\ maxDepth \in 0..MaxDepthBound
    /\ mainpc = "start"
    /\ mirrorBaseDir = <<>>
    /\ tasks = <<>>
    /\ sem = 0
    /\ wg = 0
    /\ visited = {}
    /\ gets = {}
    /\ writes = {}
    /\ interrupted = FALSE
    /\ exited = FALSE
    /\ exitCode = -1
    /\ mode = "mirror"
    /\ args = <<rootURL>>
    /\ rateLimitStr = <<>>
    /\ urls = <<>>
    /\ output = <<>>
    /\ directory = <<>>
    /\ disk = "ok"
    /\ dls = <<>>
    /\ successful = 0
    /\ mu = FALSE
    /\ summary = <<>>
    /\ call = NoCall
    /\ results = <<>>
    /\ now = 0

\* status is resp.StatusCode (0 as long as the task holds no response), html
\* tells whether the content type is text/html, body is contentString.
Task(u, d) ==
    [url |-> u, depth |-> d, pc |-> "entry", status |-> 0, html |-> FALSE, body |-> <<>>,
     links |-> <<>>, i |-> 1]

\* The key of the root task, and of the child spawned for link i of task t.
RootTask == <<0>>
ChildOf(t, i) == Append(t, i)

At(t, pc) == ~exited /\ t \in DOMAIN tasks /\ tasks[t].pc = pc
Goto(t, pc) == tasks' = [tasks EXCEPT ![t].pc = pc]

\* A flag that is never seen set.
IsInterruptedNever == FALSE

\* IsInterrupted
IsInterrupted == interrupted

\* ------------------------------------------------------------- Mirror

\* A goroutine that is started without being counted.
WgAddForgotten(n) == n

\* wg.Add(1)
WgAdd(n) == n + 1

\* Mirror up to its wait: the mirror directory is chosen, the root task is
\* counted in the WaitGroup, a unit is acquired for it and it is started at
\* depth 0 with the root URL as its URL and as its base URL.
RootDepth == 0

MirrorStart ==
    /\ ~exited
    /\ mainpc = "start"
    /\ sem < maxConcurrent
    /\ mirrorBaseDir' = MirrorBaseDirOf(rootURL)
    /\ wg' = WgAdd(wg)
    /\ sem' = sem + 1
    /\ tasks' = (RootTask :> Task(rootURL, RootDepth))
    /\ mainpc' = "wait"
    /\ UNCHANGED <<params, helper, download, visited, gets, writes, interrupted, exited, exitCode>>

\* Mirror reporting without waiting for the WaitGroup.
WaitReturnsEarly == TRUE

\* wg.Wait returns when the counter is zero; Mirror then reports
\* len(visited) and returns.
WaitReturns == wg = 0

MirrorJoin ==
    /\ ~exited
    /\ mainpc = "wait"
    /\ WaitReturns
    /\ mainpc' = "joined"
    /\ UNCHANGED <<params, helper, download, mirrorBaseDir, tasks, shared, interrupted, exited, exitCode>>

\* main returns after Mirror, which returns no error: the process ends with
\* status 0, whatever its goroutines are at.
MainReturn ==
    /\ ~exited
    /\ mainpc = "joined"
    /\ mainpc' = "returned"
    /\ exited' = TRUE
    /\ exitCode' = 0
    /\ UNCHANGED <<params, helper, download, mirrorBaseDir, tasks, shared, interrupted>>

\* ------------------------------------------------------ MirrorWebsite

\* The depth check off by one.
DepthExceededOffByOne(d) == d > maxDepth + 1

\* The entry checks: interruption, then depth.
DepthExceeded(d) == d > maxDepth

Entry(t) ==
    /\ At(t, "entry")
    /\ IF IsInterrupted THEN Goto(t, "done")
       ELSE IF DepthExceeded(tasks[t].depth) THEN Goto(t, "done")
       ELSE Goto(t, "visit")
    /\ UNCHANGED <<params, helper, download, mainpc, mirrorBaseDir, shared, interrupted, exited, exitCode>>

\* A visited map that is never consulted.
AlreadyVisitedNever(u) == FALSE

\* The check of the visited map and the insertion, under w.mutex.
AlreadyVisited(u) == u \in visited

Visit(t) ==
    /\ At(t, "visit")
    /\ IF AlreadyVisited(tasks[t].url)
       THEN Goto(t, "done") /\ UNCHANGED visited
       ELSE Goto(t, "fetch") /\ visited' = visited \cup {tasks[t].url}
    /\ UNCHANGED <<params, helper, download, mainpc, mirrorBaseDir, sem, wg, gets, writes, interrupted, exited, exitCode>>

\* client.Do returned an error, or a status that is 404 or not 200.
FetchFailed(r) == r.err \/ r.status = 404 \/ r.status # 200

\* client.Do and what follows up to the link loop: a transport error, a
\* status other than 200 or a failure of io.ReadAll ends the task; an HTML
\* body has its links extracted against the base URL; any other body goes
\* to be saved.
Fetch(t) ==
    /\ At(t, "fetch")
    /\ gets' = gets \cup {[task |-> t, url |-> tasks[t].url]}
    /\ \E r \in Responses(site, tasks[t].url) :
          IF FetchFailed(r) \/ r.cut
          THEN tasks' = [tasks EXCEPT ![t].status = r.status, ![t].pc = "done"]
          ELSE IF r.html
               THEN tasks' = [tasks EXCEPT ![t].status = r.status,
                                           ![t].html = TRUE,
                                           ![t].body = r.body,
                                           ![t].links = extractLinks(r.body, rootURL),
                                           ![t].i = 1,
                                           ![t].pc = "loop"]
          ELSE tasks' = [tasks EXCEPT ![t].status = r.status, ![t].body = r.body,
                                      ![t].pc = "write"]
    /\ UNCHANGED <<params, helper, download, mainpc, mirrorBaseDir, sem, wg, visited, writes, interrupted, exited, exitCode>>

\* The link loop without its call of the filter.
LinkRejectedNever(link) == FALSE

\* The link loop's call of the filter with the run's lists.
LinkRejected(link) == shouldReject(link, reject, exclude)

\* One turn of the link loop up to wg.Add: the loop ends after the last
\* link; an interruption ends the task; a rejected or off-host link is
\* passed over; an accepted link is counted in the WaitGroup.
Loop(t) ==
    /\ At(t, "loop")
    /\ LET k == tasks[t].i IN
       IF k > Len(tasks[t].links) THEN Goto(t, "write") /\ UNCHANGED wg
       ELSE IF IsInterrupted THEN Goto(t, "done") /\ UNCHANGED wg
       ELSE IF LinkRejected(tasks[t].links[k])
            THEN tasks' = [tasks EXCEPT ![t].i = k + 1] /\ UNCHANGED wg
       ELSE IF SameHost(tasks[t].links[k], rootURL)
            THEN Goto(t, "acquire") /\ wg' = WgAdd(wg)
       ELSE tasks' = [tasks EXCEPT ![t].i = k + 1] /\ UNCHANGED wg
    /\ UNCHANGED <<params, helper, download, mainpc, mirrorBaseDir, sem, visited, gets, writes, interrupted, exited, exitCode>>

\* A send that never blocks.
SemAlwaysHasRoom == TRUE

\* sem <- struct{}{} blocks while the channel is full; the child goroutine
\* is started with the parent's depth plus one.
SemHasRoom == sem < maxConcurrent
ChildDepth(d) == d + 1

\* The child goroutine started without a unit acquired for it.
SpawnWithoutUnit(t) ==
    /\ At(t, "acquire")
    /\ LET k == tasks[t].i IN
       tasks' = [tasks EXCEPT ![t].i = k + 1, ![t].pc = "loop"]
                @@ (ChildOf(t, k) :> Task(tasks[t].links[k], ChildDepth(tasks[t].depth)))
    /\ UNCHANGED <<params, helper, download, mainpc, mirrorBaseDir, sem, wg, visited, gets, writes, interrupted, exited, exitCode>>

Acquire(t) ==
    /\ At(t, "acquire")
    /\ SemHasRoom
    /\ sem' = sem + 1
    /\ LET k == tasks[t].i IN
       tasks' = [tasks EXCEPT ![t].i = k + 1, ![t].pc = "loop"]
                @@ (ChildOf(t, k) :> Task(tasks[t].links[k], ChildDepth(tasks[t].depth)))
    /\ UNCHANGED <<params, helper, download, mainpc, mirrorBaseDir, wg, visited, gets, writes, interrupted, exited, exitCode>>

\* The document (rewritten with the task's URL as current URL when it is
\* HTML) is created and written at the local path of the task's URL.
Write(t) ==
    /\ At(t, "write")
    /\ \E localFilePath \in {LocalFilePath(tasks[t].url, mirrorBaseDir)} :
       \E contentBytes \in {IF tasks[t].html
                             THEN rewriteHTML(tasks[t].body, tasks[t].url, rootURL)
                             ELSE tasks[t].body} :
          writes' = writes \cup {[task |-> t, url |-> tasks[t].url, path |-> localFilePath,
                                  content |-> contentBytes]}
    /\ Goto(t, "done")
    /\ UNCHANGED <<params, helper, download, mainpc, mirrorBaseDir, sem, wg, visited, gets, interrupted, exited, exitCode>>

\* MirrorWebsite returns: the deferred wg.Done.
Done(t) ==
    /\ At(t, "done")
    /\ wg' = wg - 1
    /\ Goto(t, "release")
    /\ UNCHANGED <<params, helper, download, mainpc, mirrorBaseDir, sem, visited, gets, writes, interrupted, exited, exitCode>>

\* The goroutine's deferred <-sem.
Release(t) ==
    /\ At(t, "release")
    /\ sem' = sem - 1
    /\ Goto(t, "finished")
    /\ UNCHANGED <<params, helper, download, mainpc, mirrorBaseDir, wg, visited, gets, writes, interrupted, exited, exitCode>>

\* ------------------------------------------------- the signal handler

\* The handler goroutine receives the signal and sets the flag.
Signal ==
    /\ ~exited
    /\ ~interrupted
    /\ interrupted' = TRUE
    /\ UNCHANGED <<params, helper, download, mainpc, mirrorBaseDir, tasks, shared, exited, exitCode>>

\* The handler then prints and calls os.Exit(1).
Exit ==
    /\ ~exited
    /\ interrupted
    /\ exited' = TRUE
    /\ exitCode' = 1
    /\ UNCHANGED <<params, helper, download, mainpc, mirrorBaseDir, tasks, shared, interrupted>>

\* ------------------------------------------------------- DownloadFile

\* path.Base: "." for the empty path, "/" for a path of slashes only,
\* otherwise the last element, trailing slashes not counted.
PathBase(p) ==
    IF p = <<>> THEN <<Dot>>
    ELSE Only({IF es = <<>> THEN <<Slash>> ELSE es[Len(es)] : es \in {Elements(p)}})

\* The output name of a download that is not part of a mirror, before the
\* directory is joined to it: -O when it is given, otherwise the base of the
\* URL's path, index.html standing in for "" and "/".
OutputName(u, outputPath) ==
    IF outputPath # <<>> THEN outputPath
    ELSE Only({IF base \in {<<>>, <<Slash>>} THEN IndexHtml ELSE base : base \in {PathBase(u.path)}})

FinalOutputPath(u, outputPath, dir) ==
    IF dir # <<>> THEN FilepathJoin(<<dir, OutputName(u, outputPath)>>)
    ELSE OutputName(u, outputPath)

\* os.MkdirAll fails when the directory has to be created and the file
\* system refuses; os.Create fails when the file system refuses or the path
\* is a directory.
MkdirAllFails(dir) == disk = "readonly" /\ dir # <<Dot>>
CreateFails(path) ==
    \/ disk = "readonly"
    \/ path = <<Dot>>
    \/ directory # <<>> /\ path = Cleaned(directory)

\* A call of DownloadFile and its caller's handling of the result: err is
\* the error returned ("" for nil), named the status its message names, path
\* the file created, said whether "Downloaded successfully" was printed, tmp
\* the value of successful read for the increment.
Dl(u, pc) ==
    [url |-> u, pc |-> pc, status |-> 0, cut |-> FALSE, err |-> "", named |-> 0,
     path |-> <<>>, said |-> FALSE, tmp |-> 0]

DAt(d, pc) == ~exited /\ d \in DOMAIN dls /\ dls[d].pc = pc
Return(d, e) == dls' = [dls EXCEPT ![d].err = e, ![d].pc = "ret"]

\* A download that takes every status for a success.
StatusOKAlways(n) == TRUE

\* resp.StatusCode == http.StatusOK
StatusOK(n) == n = 200

\* http.NewRequest and client.Do: an unparsable URL, a transport error (also
\* for a scheme that is not http or https) and a status other than 200 are
\* returned as errors.
DlRequest(d) ==
    /\ DAt(d, "request")
    /\ IF ParseFails(dls[d].url)
       THEN Return(d, "invalid URL") /\ UNCHANGED gets
       ELSE /\ gets' = gets \cup {[task |-> d, url |-> dls[d].url]}
            /\ \E r \in (IF dls[d].url.scheme \in {HttpScheme, HttpsScheme}
                        THEN Responses(site, dls[d].url)
                        ELSE {TransportError}) :
                  IF r.err THEN Return(d, "request failed")
                  ELSE IF ~StatusOK(r.status)
                       THEN dls' = [dls EXCEPT ![d].status = r.status, ![d].err = "HTTP",
                                               ![d].named = r.status, ![d].pc = "ret"]
                  ELSE dls' = [dls EXCEPT ![d].status = r.status, ![d].cut = r.cut,
                                          ![d].pc = "create"]
    /\ UNCHANGED <<params, helper, mainpc, mirrorBaseDir, tasks, sem, wg, visited, writes,
                   interrupted, exited, exitCode, successful, mu, summary>>

\* The output path is chosen, its directories are made and the file is
\* created.
DlCreate(d) ==
    /\ DAt(d, "create")
    /\ \E finalOutputPath \in {FinalOutputPath(dls[d].url, output, directory)} :
          IF directory # <<>> /\ MkdirAllFails(Cleaned(directory))
          THEN Return(d, "failed to create directory") /\ UNCHANGED writes
          ELSE IF MkdirAllFails(FilepathDir(finalOutputPath))
               THEN Return(d, "failed to create directory") /\ UNCHANGED writes
          ELSE IF CreateFails(finalOutputPath)
               THEN Return(d, "failed to create file") /\ UNCHANGED writes
          ELSE /\ dls' = [dls EXCEPT ![d].path = finalOutputPath, ![d].pc = "copy"]
               /\ writes' = writes \cup {[task |-> d, url |-> dls[d].url,
                                          path |-> finalOutputPath, content |-> <<>>]}
    /\ UNCHANGED <<params, helper, mainpc, mirrorBaseDir, tasks, sem, wg, visited, gets,
                   interrupted, exited, exitCode, successful, mu, summary>>

\* io.Copy, and the messages of a download that succeeded.
DlCopy(d) ==
    /\ DAt(d, "copy")
    /\ IF dls[d].cut
       THEN Return(d, IF IsInterrupted THEN "download interrupted" ELSE "download failed")
       ELSE dls' = [dls EXCEPT ![d].said = TRUE, ![d].pc = "ret"]
    /\ UNCHANGED <<params, helper, mainpc, mirrorBaseDir, tasks, shared,
                   interrupted, exited, exitCode, successful, mu, summary>>

\* ---------------------------------------------------- a single download

\* main calls DownloadFile for args[0].
SingleStart ==
    /\ ~exited
    /\ mode = "single"
    /\ mainpc = "start"
    /\ dls' = (1 :> Dl(urls[1], "request"))
    /\ mainpc' = "download"
    /\ UNCHANGED <<params, helper, mirrorBaseDir, tasks, shared, interrupted, exited, exitCode,
                   successful, mu, summary>>

\* main after DownloadFile: an error is printed and the process exits with
\* status 1; otherwise main returns.
SingleReturn ==
    /\ mode = "single"
    /\ mainpc = "download"
    /\ DAt(1, "ret")
    /\ mainpc' = "returned"
    /\ exited' = TRUE
    /\ exitCode' = IF dls[1].err # "" THEN 1 ELSE 0
    /\ UNCHANGED <<params, helper, download, mirrorBaseDir, tasks, shared, interrupted>>

\* ----------------------------------------------- DownloadMultipleFiles

BatchStart ==
    /\ ~exited
    /\ mode = "batch"
    /\ mainpc = "start"
    /\ mainpc' = "launch"
    /\ UNCHANGED <<params, helper, download, mirrorBaseDir, tasks, shared, interrupted, exited, exitCode>>

\* One turn of the loop over the URLs: an interruption ends the loop;
\* otherwise the goroutine of the next URL is counted and started.
BatchLaunch ==
    /\ ~exited
    /\ mainpc = "launch"
    /\ LET k == Len(dls) + 1 IN
       IF k > Len(urls) \/ IsInterrupted
       THEN mainpc' = "wait" /\ UNCHANGED <<wg, dls>>
       ELSE /\ wg' = wg + 1
            /\ dls' = Append(dls, Dl(urls[k], "acquire"))
            /\ UNCHANGED mainpc
    /\ UNCHANGED <<params, helper, mirrorBaseDir, tasks, sem, visited, gets, writes,
                   interrupted, exited, exitCode, successful, mu, summary>>

\* A goroutine that does not wait for a unit.
DlSemAlwaysHasRoom == TRUE

\* sem <- struct{}{} in the goroutine blocks while the channel is full.
DlSemHasRoom == sem < maxConcurrent

DlAcquire(d) ==
    /\ DAt(d, "acquire")
    /\ DlSemHasRoom
    /\ sem' = sem + 1
    /\ dls' = [dls EXCEPT ![d].pc = "request"]
    /\ UNCHANGED <<params, helper, mainpc, mirrorBaseDir, tasks, wg, visited, gets, writes,
                   interrupted, exited, exitCode, successful, mu, summary>>

\* The goroutine after DownloadFile: an error is printed; a success goes on
\* to be counted.
DlReport(d) ==
    /\ mode = "batch"
    /\ DAt(d, "ret")
    /\ dls' = [dls EXCEPT ![d].pc = IF dls[d].err # "" THEN "release" ELSE "lock"]
    /\ UNCHANGED <<params, helper, mainpc, mirrorBaseDir, tasks, shared,
                   interrupted, exited, exitCode, successful, mu, summary>>

\* An increment that does not take the mutex.
MuAlwaysFree == TRUE

\* mu.Lock() blocks while the mutex is held.
MuFree == ~mu

\* mu.Lock() and the read of successful++.
DlLock(d) ==
    /\ DAt(d, "lock")
    /\ MuFree
    /\ mu' = TRUE
    /\ dls' = [dls EXCEPT ![d].tmp = successful, ![d].pc = "store"]
    /\ UNCHANGED <<params, helper, mainpc, mirrorBaseDir, tasks, shared,
                   interrupted, exited, exitCode, successful, summary>>

\* The write of successful++ and mu.Unlock().
DlStore(d) ==
    /\ DAt(d, "store")
    /\ successful' = dls[d].tmp + 1
    /\ mu' = FALSE
    /\ dls' = [dls EXCEPT ![d].pc = "release"]
    /\ UNCHANGED <<params, helper, mainpc, mirrorBaseDir, tasks, shared,
                   interrupted, exited, exitCode, summary>>

\* A goroutine that keeps its unit.
DlReleaseLeaks(d) ==
    /\ DAt(d, "release")
    /\ dls' = [dls EXCEPT ![d].pc = "wgdone"]
    /\ UNCHANGED <<params, helper, mainpc, mirrorBaseDir, tasks, shared,
                   interrupted, exited, exitCode, successful, mu, summary>>

\* The goroutine's deferred <-sem.
DlRelease(d) ==
    /\ DAt(d, "release")
    /\ sem' = sem - 1
    /\ dls' = [dls EXCEPT ![d].pc = "wgdone"]
    /\ UNCHANGED <<params, helper, mainpc, mirrorBaseDir, tasks, wg, visited, gets, writes,
                   interrupted, exited, exitCode, successful, mu, summary>>

\* The goroutine's deferred wg.Done.
DlDone(d) ==
    /\ DAt(d, "wgdone")
    /\ wg' = wg - 1
    /\ dls' = [dls EXCEPT ![d].pc = "finished"]
    /\ UNCHANGED <<params, helper, mainpc, mirrorBaseDir, tasks, sem, visited, gets, writes,
                   interrupted, exited, exitCode, successful, mu, summary>>

\* wg.Wait in DownloadMultipleFiles.
BatchWaitReturns == wg = 0

\* wg.Wait returns and the summary is printed: successful out of len(urls).
\* DownloadMultipleFiles then returns nil and main returns.
BatchJoin ==
    /\ ~exited
    /\ mode = "batch"
    /\ mainpc = "wait"
    /\ BatchWaitReturns
    /\ summary' = [successful |-> successful, total |-> Len(urls)]
    /\ mainpc' = "joined"
    /\ UNCHANGED <<params, helper, mirrorBaseDir, tasks, shared, interrupted, exited, exitCode,
                   dls, successful, mu>>

\* The inputs of the downloads: the URL given or the URLs of the input
\* file, -O, -P and the state of the file system.
OutO == <<"o">>
DirD == <<"d">>
Unparsable == URL(<<>>, <<>>, <<":", "x">>)
HttURL == URL(<<"h", "t", "t">>, HostH, PathR)

Single(u, o, d, k) ==
    [mode |-> "single", urls |-> <<u>>, output |-> o, directory |-> d, disk |-> k]
Batch(l, d, k) ==
    [mode |-> "batch", urls |-> l, output |-> <<>>, directory |-> d, disk |-> k]

Downloads ==
    {Single(u, o, d, k) :
        u \in {U(PathR), U(PathC), U(PathT), RootPlain, RootSlash, Unparsable, HttURL},
        o \in {<<>>, OutO}, d \in {<<>>, DirD}, k \in {"ok", "readonly"}}
    \cup {Batch(<<U(PathAX), U(PathBX)>>, <<>>, "ok"),
          Batch(<<U(PathR), U(PathC), U(PathT)>>, DirD, "ok"),
          Batch(<<U(PathR), U(PathAX), RootSlash>>, <<>>, "ok"),
          Batch(<<U(PathR), U(PathR)>>, <<>>, "readonly"),
          Batch(<<U(PathR)>>, DirD, "ok")}

\* main up to the call of DownloadFile or of DownloadMultipleFiles.
InitDownload ==
    /\ \E c \in Downloads :
          /\ mode = c.mode
          /\ urls = c.urls
          /\ output = c.output
          /\ directory = c.directory
          /\ disk = c.disk
          /\ rootURL = c.urls[1]
          /\ args = (IF c.mode = "single" THEN c.urls ELSE <<>>)
          /\ maxConcurrent \in (IF c.mode = "batch" THEN 1..MaxConc ELSE {MaxConc})
    /\ site = "files"
    /\ rateLimitStr = <<>>
    /\ maxDepth = 0
    /\ reject = <<>>
    /\ exclude = <<>>
    /\ mainpc = "start"
    /\ mirrorBaseDir = <<>>
    /\ tasks = <<>>
    /\ sem = 0
    /\ wg = 0
    /\ visited = {}
    /\ gets = {}
    /\ writes = {}
    /\ interrupted = FALSE
    /\ exited = FALSE
    /\ exitCode = -1
    /\ dls = <<>>
    /\ successful = 0
    /\ mu = FALSE
    /\ summary = <<>>
    /\ call = NoCall
    /\ results = <<>>
    /\ now = 0

\* ------------------------------------------- the helpers on their own

PathV == <<"/", "v", ".", "1", "/">>
RelQ == <<"q", ".", "p", "n", "g">>
PathAQ == PathA \o <<Slash>> \o RelQ
PathUpper == <<"/", "P", ".", "P", "N", "G">>
PathApng == <<"/", "q", ".", "a", "p", "n", "g">>
PathPng == <<"/", "p", "n", "g">>

\* The URLs of the documents rewritten: the root of a site, a page without
\* an extension, a directory, a directory with a dot in its name, and the
\* same under a hostname with a dot.
CurrentURLs ==
    {RootPlain, RootSlash, U(PathA), U(PathB), U(PathV),
     RootIO, UIO(<<Slash>>), UIO(PathA), UIO(PathB)}

\* The values of the link attributes of a document at cur: paths from the
\* root, paths relative to the document, a URL of the same host, a URL of
\* another host.
LinkVals(cur) ==
    {Ref(PathC), Ref(<<"c">>), Ref(PathB), Ref(PathAQ), Ref(RelQ),
     URL(HttpScheme, Hostname(cur), PathC), ExternalE}

Contents(cur) ==
    {<<Elem("a", "href", v)>> : v \in LinkVals(cur)}
        \cup {<<Elem("img", "src", Ref(PathAQ)), Elem("form", "action", Ref(PathC))>>,
              <<Elem("script", "src", ExternalE), Elem("link", "href", Ref(<<"c">>))>>}

\* The calls of rewriteHTML explored: MirrorWebsite passes the task's URL
\* and the root URL of the run, which has the task's hostname.
RewriteCalls ==
    UNION {{[fn |-> "rewriteHTML", content |-> c, currentURL |-> u,
             baseURL |-> URL(HttpScheme, Hostname(u), <<>>)] : c \in Contents(u)} :
           u \in CurrentURLs}

ExtPng == <<"p", "n", "g">>
ExtHtml == <<"h", "t", "m", "l">>
ExtUpper == <<"P", "N", "G">>
SubB == <<"/", "b">>
SubA == <<"a">>

\* The calls of shouldReject explored, and the entries added to its lists.
FilterCalls ==
    {[fn |-> "shouldReject", urlStr |-> u, reject |-> r, exclude |-> x] :
        u \in {U(PathImg), U(PathUpper), U(PathA), U(PathB), RootPlain,
               U(PathApng), U(PathPng), Unparsable},
        r \in {<<>>, <<ExtPng>>},
        x \in {<<>>, <<SubB>>}}

Extensions == {ExtPng, ExtHtml, ExtUpper}
Substrings == {SubA, SubB}

\* time.Second, in ticks of the clock.
Second == 4

\* The bodies read through a RateLimitedReader: the byte counts the
\* underlying reader returns, one for each call of its Read; the last call
\* returns its count together with io.EOF.
Bodies == {<<0>>, <<3>>, <<2, 1>>, <<1, 1, 1>>, <<3, 0, 2>>}

\* The values of --rate-limit: 0 is no limit.
RateLimits == {0, 1, 2, 3, 5}

\* NewRateLimitedReader(reader, rateLimit), made at time 0, and the calls of
\* its Read that io.Copy makes.
ReadCalls ==
    {[fn |-> "Read", reader |-> b, rateLimit |-> r, lastRead |-> 0, created |-> 0] :
        b \in Bodies, r \in RateLimits}

InitHelpers ==
    /\ call \in RewriteCalls \cup FilterCalls \cup ReadCalls
    /\ results = <<>>
    /\ now = 0
    /\ mode = "helpers"
    /\ args = <<>>
    /\ rateLimitStr = <<>>
    /\ site = "files"
    /\ rootURL = (CASE call.fn = "rewriteHTML" -> call.baseURL
                     [] call.fn = "shouldReject" -> call.urlStr
                     [] OTHER -> RootPlain)
    /\ maxConcurrent = 1
    /\ maxDepth = 0
    /\ reject = <<>>
    /\ exclude = <<>>
    /\ urls = <<>>
    /\ output = <<>>
    /\ directory = <<>>
    /\ disk = "ok"
    /\ mainpc = "start"
    /\ mirrorBaseDir = <<>>
    /\ tasks = <<>>
    /\ sem = 0
    /\ wg = 0
    /\ visited = {}
    /\ gets = {}
    /\ writes = {}
    /\ interrupted = FALSE
    /\ exited = FALSE
    /\ exitCode = -1
    /\ dls = <<>>
    /\ successful = 0
    /\ mu = FALSE
    /\ summary = <<>>

\* rewriteHTML is called on the document.
CallRewriteHTML ==
    /\ call.fn = "rewriteHTML"
    /\ results = <<>>
    /\ results' = <<rewriteHTML(call.content, call.currentURL, call.baseURL)>>
    /\ UNCHANGED <<params, mainpc, mirrorBaseDir, tasks, shared, interrupted, exited, exitCode,
                   download, call, now>>

\* rewriteHTML is called on what it returned, with the same URLs.
CallRewriteHTMLAgain ==
    /\ call.fn = "rewriteHTML"
    /\ Len(results) = 1
    /\ results' = Append(results, rewriteHTML(results[1], call.currentURL, call.baseURL))
    /\ UNCHANGED <<params, mainpc, mirrorBaseDir, tasks, shared, interrupted, exited, exitCode,
                   download, call, now>>

\* shouldReject is called with the lists.
CallShouldReject ==
    /\ call.fn = "shouldReject"
    /\ results = <<>>
    /\ results' = <<shouldReject(call.urlStr, call.reject, call.exclude)>>
    /\ UNCHANGED <<params, mainpc, mirrorBaseDir, tasks, shared, interrupted, exited, exitCode,
                   download, call, now>>

\* expectedDuration without the factor time.Second.
ExpectedDurationInSeconds(n, rateLimit) == n \div rateLimit

\* Read's expectedDuration: the time n bytes take at rateLimit bytes in a
\* second, rounded down to a tick.
ExpectedDuration(n, rateLimit) == (n * Second) \div rateLimit

\* RateLimitedReader.Read: the underlying Read returns n bytes after took
\* ticks; when the limit is positive and n > 0, and less than
\* expectedDuration has passed since lastRead, Read sleeps for the rest
\* (time.Sleep returns late ticks after that) and sets lastRead to the
\* clock; it returns what the underlying Read returned.
Read ==
    /\ call.fn = "Read"
    /\ Len(results) < Len(call.reader)
    /\ \E took \in 0..MaxDelay, late \in 0..MaxDelay :
       \E n \in {call.reader[Len(results) + 1]} :
       \E returned \in {now + took} :
       \E limited \in {call.rateLimit > 0 /\ n > 0} :
       \E woke \in {IF limited /\ returned - call.lastRead < ExpectedDuration(n, call.rateLimit)
                    THEN call.lastRead + ExpectedDuration(n, call.rateLimit) + late
                    ELSE returned} :
          /\ now' = woke
          /\ call' = IF limited THEN [call EXCEPT !.lastRead = woke] ELSE call
          /\ results' = Append(results, [n |-> n,
                                          err |-> Len(results) + 1 = Len(call.reader),
                                          delay |-> woke - returned])
    /\ UNCHANGED <<params, mainpc, mirrorBaseDir, tasks, shared, interrupted, exited, exitCode,
                   download>>

\* list with entry e added at its front or at its end.
WithEntry(list, e, front) == IF front THEN <<e>> \o list ELSE Append(list, e)

\* shouldReject is called again with one more extension in reject; results
\* keeps the verdict before and the verdict after.
AddRejectEntry ==
    /\ call.fn = "shouldReject"
    /\ results # <<>>
    /\ Len(call.reject) < MaxListLen
    /\ \E e \in Extensions, front \in BOOLEAN :
          \E longer \in {WithEntry(call.reject, e, front)} :
              /\ call' = [call EXCEPT !.reject = longer]
              /\ results' = <<results[Len(results)],
                              shouldReject(call.urlStr, longer, call.exclude)>>
    /\ UNCHANGED <<params, mainpc, mirrorBaseDir, tasks, shared, interrupted, exited, exitCode,
                   download, now>>

\* shouldReject is called again with one more substring in exclude.
AddExcludeEntry ==
    /\ call.fn = "shouldReject"
    /\ results # <<>>
    /\ Len(call.exclude) < MaxListLen
    /\ \E x \in Substrings, front \in BOOLEAN :
          \E longer \in {WithEntry(call.exclude, x, front)} :
              /\ call' = [call EXCEPT !.exclude = longer]
              /\ results' = <<results[Len(results)],
                              shouldReject(call.urlStr, call.reject, longer)>>
    /\ UNCHANGED <<params, mainpc, mirrorBaseDir, tasks, shared, interrupted, exited, exitCode,
                   download, now>>

\* ------------------------------------------------------------- main

Digits == {"0", "1", "2", "3", "4", "5", "6", "7", "8", "9"}
Suffixes == {"k", "m", "K", "M"}

\* \d+
IsDigits(s) == s # <<>> /\ \A i \in 1..Len(s) : s[i] \in Digits

\* \d+(?:\.\d+)?
IsNumber(s) ==
    \/ IsDigits(s)
    \/ \E i \in 1..Len(s) :
          s[i] = Dot /\ IsDigits(SubSeq(s, 1, i - 1)) /\ IsDigits(SubSeq(s, i + 1, Len(s)))

\* The number of matches[1] and the unit of matches[2] of parseRateLimit's
\* regular expression on s (the empty sequence when s does not match).
Matches(s) ==
    IF IsNumber(s) THEN <<s, <<>>>>
    ELSE IF s # <<>> /\ s[Len(s)] \in Suffixes /\ IsNumber(SubSeq(s, 1, Len(s) - 1))
         THEN <<SubSeq(s, 1, Len(s) - 1), <<s[Len(s)]>>>>
    ELSE <<>>

DigitValue(c) == CHOOSE v \in 0..9 : <<"0", "1", "2", "3", "4", "5", "6", "7", "8", "9">>[v + 1] = c

\* The digits of a number without its dot, and the number of digits that
\* follow the dot.
RECURSIVE Scaled(_, _)
Scaled(s, acc) ==
    IF s = <<>> THEN acc
    ELSE IF Head(s) = Dot THEN Scaled(Tail(s), acc)
    ELSE Scaled(Tail(s), 10 * acc + DigitValue(Head(s)))

RECURSIVE Decimals(_)
Decimals(s) ==
    IF s = <<>> THEN 0 ELSE IF Head(s) = Dot THEN Len(s) - 1 ELSE Decimals(Tail(s))

RECURSIVE Pow10(_)
Pow10(n) == IF n = 0 THEN 1 ELSE 10 * Pow10(n - 1)

\* The factor of a unit: 1024 for k and K, 1024 * 1024 for m and M.
Unit(u) ==
    CASE u = <<>> -> 1
      [] u[1] \in {"k", "K"} -> 1024
      [] OTHER -> 1024 * 1024

\* parseRateLimit: no limit (0) for the empty string, an error for a string
\* that the regular expression does not match, otherwise the number times
\* its unit, cut to an integer.
parseRateLimit(s) ==
    IF s = <<>> THEN [value |-> 0, err |-> FALSE]
    ELSE Only({IF m = <<>> THEN [value |-> 0, err |-> TRUE]
               ELSE [value |-> (Scaled(m[1], 0) * Unit(m[2])) \div Pow10(Decimals(m[1])),
                     err |-> FALSE] :
               m \in {Matches(s)}})

\* The values of --rate-limit explored.
RateLimitStrs ==
    {<<>>, <<"2", "k">>, <<"1", ".", "5", "M">>, <<"x">>, <<"2", ".">>, <<"k">>}

\* The command lines explored: a mirror run, single downloads and batch
\* downloads, with or without the URL argument, with a rate limit.
CommandLines ==
    {[mode |-> m, args |-> a, urls |-> l, rateLimitStr |-> r] :
        m \in {"mirror", "single", "batch"},
        a \in {<<>>, <<RootPlain>>},
        l \in {<<>>, <<U(PathR), U(PathC)>>},
        r \in RateLimitStrs}

\* main after flag.Parse.
InitMain ==
    /\ \E c \in CommandLines :
          /\ mode = c.mode
          /\ args = c.args
          /\ urls = (CASE c.mode = "batch" -> c.urls
                       [] c.mode = "single" -> c.args
                       [] OTHER -> <<>>)
          /\ c.mode # "batch" => c.urls = <<>>
          /\ rateLimitStr = c.rateLimitStr
    /\ rootURL = RootPlain
    /\ site = (IF mode = "mirror" THEN "relative" ELSE "files")
    /\ maxConcurrent = MaxConc - 1
    /\ maxDepth = 1
    /\ reject = <<>>
    /\ exclude = <<>>
    /\ output = <<>>
    /\ directory = <<>>
    /\ disk = "ok"
    /\ mainpc = "flags"
    /\ mirrorBaseDir = <<>>
    /\ tasks = <<>>
    /\ sem = 0
    /\ wg = 0
    /\ visited = {}
    /\ gets = {}
    /\ writes = {}
    /\ interrupted = FALSE
    /\ exited = FALSE
    /\ exitCode = -1
    /\ dls = <<>>
    /\ successful = 0
    /\ mu = FALSE
    /\ summary = <<>>
    /\ call = NoCall
    /\ results = <<>>
    /\ now = 0

\* main's checks before it calls Mirror, DownloadMultipleFiles or
\* DownloadFile: the usage when nothing is asked for; in a mirror run the
\* URL argument; in a batch download the URLs of the input file, then the
\* rate limit; in a single download the rate limit.  fatal is os.Exit(1)
\* after the message.
MainFatal ==
    CASE mode = "mirror" -> args = <<>>
      [] mode = "batch" -> urls = <<>> \/ parseRateLimit(rateLimitStr).err
      [] OTHER -> args = <<>> \/ parseRateLimit(rateLimitStr).err

MainFlags ==
    /\ ~exited
    /\ mainpc = "flags"
    /\ IF MainFatal
       THEN mainpc' = "fatal" /\ exited' = TRUE /\ exitCode' = 1
       ELSE mainpc' = "start" /\ UNCHANGED <<exited, exitCode>>
    /\ UNCHANGED <<params, helper, download, mirrorBaseDir, tasks, shared, interrupted>>

\* ------------------------------------------------- the specifications

\* A run that no signal interrupts.
NextRun ==
    \/ MirrorStart
    \/ MirrorJoin
    \/ MainReturn
    \/ \E t \in DOMAIN tasks : Entry(t)
    \/ \E t \in DOMAIN tasks : Visit(t)
    \/ \E t \in DOMAIN tasks : Fetch(t)
    \/ \E t \in DOMAIN tasks : Loop(t)
    \/ \E t \in DOMAIN tasks : Acquire(t)
    \/ \E t \in DOMAIN tasks : Write(t)
    \/ \E t \in DOMAIN tasks : Done(t)
    \/ \E t \in DOMAIN tasks : Release(t)

Next ==
    \/ NextRun
    \/ Signal
    \/ Exit

Spec == Init /\ [][Next]_vars

\* The Go scheduler runs a goroutine that can take a step: a run that no
\* signal interrupts does not stop while some step of it is possible.
SpecRun == Init /\ [][NextRun]_vars /\ WF_vars(NextRun)

\* The same with the signal: its arrival is the environment's choice, and
\* the handler that has set the flag goes on to os.Exit.
SpecLive == Init /\ [][Next]_vars /\ WF_vars(NextRun) /\ WF_vars(Exit)

\* A single download or a batch of downloads, with the signal.
NextDownload ==
    \/ SingleStart
    \/ SingleReturn
    \/ BatchStart
    \/ BatchLaunch
    \/ BatchJoin
    \/ mode = "batch" /\ MainReturn
    \/ \E d \in DOMAIN dls : DlAcquire(d)
    \/ \E d \in DOMAIN dls : DlRequest(d)
    \/ \E d \in DOMAIN dls : DlCreate(d)
    \/ \E d \in DOMAIN dls : DlCopy(d)
    \/ \E d \in DOMAIN dls : DlReport(d)
    \/ \E d \in DOMAIN dls : DlLock(d)
    \/ \E d \in DOMAIN dls : DlStore(d)
    \/ \E d \in DOMAIN dls : DlRelease(d)
    \/ \E d \in DOMAIN dls : DlDone(d)
    \/ Signal
    \/ Exit

SpecDownload == InitDownload /\ [][NextDownload]_vars

\* The steps of main and of the download goroutines, the signal left out.
NextDownloadRun ==
    \/ SingleStart
    \/ SingleReturn
    \/ BatchStart
    \/ BatchLaunch
    \/ BatchJoin
    \/ mode = "batch" /\ MainReturn
    \/ \E d \in DOMAIN dls :
          \/ DlAcquire(d) \/ DlRequest(d) \/ DlCreate(d) \/ DlCopy(d) \/ DlReport(d)
          \/ DlLock(d) \/ DlStore(d) \/ DlRelease(d) \/ DlDone(d)

\* The downloads under the Go scheduler: main and the goroutines do not stop
\* while one of them can take a step (every call of DownloadFile returns),
\* and the handler that has set the flag goes on to os.Exit.
SpecDownloadLive ==
    InitDownload /\ [][NextDownload]_vars /\ WF_vars(NextDownloadRun) /\ WF_vars(Exit)

\* main from flag.Parse on, in any of the three modes.
NextMain ==
    \/ MainFlags
    \/ mode = "mirror" /\ MirrorStart
    \/ MirrorJoin
    \/ MainReturn
    \/ \E t \in DOMAIN tasks : Entry(t)
    \/ \E t \in DOMAIN tasks : Visit(t)
    \/ \E t \in DOMAIN tasks : Fetch(t)
    \/ \E t \in DOMAIN tasks : Loop(t)
    \/ \E t \in DOMAIN tasks : Acquire(t)
    \/ \E t \in DOMAIN tasks : Write(t)
    \/ \E t \in DOMAIN tasks : Done(t)
    \/ \E t \in DOMAIN tasks : Release(t)
    \/ SingleStart
    \/ SingleReturn
    \/ BatchStart
    \/ BatchLaunch
    \/ BatchJoin
    \/ \E d \in DOMAIN dls : DlAcquire(d)
    \/ \E d \in DOMAIN dls : DlRequest(d)
    \/ \E d \in DOMAIN dls : DlCreate(d)
    \/ \E d \in DOMAIN dls : DlCopy(d)
    \/ \E d \in DOMAIN dls : DlReport(d)
    \/ \E d \in DOMAIN dls : DlLock(d)
    \/ \E d \in DOMAIN dls : DlStore(d)
    \/ \E d \in DOMAIN dls : DlRelease(d)
    \/ \E d \in DOMAIN dls : DlDone(d)
    \/ Signal
    \/ Exit

SpecMain == InitMain /\ [][NextMain]_vars

\* rewriteHTML, shouldReject and the rate-limited reader on their own.
NextHelpers ==
    \/ CallRewriteHTML
    \/ CallRewriteHTMLAgain
    \/ CallShouldReject
    \/ AddRejectEntry
    \/ AddExcludeEntry
    \/ Read

SpecHelpers == InitHelpers /\ [][NextHelpers]_vars

\* ---------------------------------------------------------- the claims

Joined == mainpc \in {"joined", "returned"}
InFlightPcs == {"entry", "visit", "fetch", "loop", "acquire", "write", "done"}
InFlight == {t \in DOMAIN tasks : tasks[t].pc \in InFlightPcs}
Parent(t) == SubSeq(t, 1, Len(t) - 1)
Fetchers == {g.task : g \in gets}
\* The tasks that have passed the check-and-insert of the visited map.
Passed == {t \in DOMAIN tasks : tasks[t].pc = "fetch"} \cup Fetchers

\* C1: no URL is fetched more than once in a run: of the tasks that hold
\* the same URL at most one passes the check-and-insert of the visited map,
\* at most one GET is issued for a URL, and a URL whose fetch failed is not
\* fetched again.
C1_NoUrlFetchedTwice ==
    /\ \A t1, t2 \in Passed : tasks[t1].url = tasks[t2].url => t1 = t2
    /\ \A g1, g2 \in gets : g1.url = g2.url => g1 = g2
    /\ \A t \in Passed : tasks[t].url \in visited

\* Two tasks spawned by different parents for the same URL have both run to
\* their end: one fetched it (and the fetch failed: nothing was written),
\* the other was turned away at the visited map.
C1_Witness ==
    \E t1, t2 \in DOMAIN tasks :
        /\ t1 # t2
        /\ Parent(t1) # Parent(t2)
        /\ tasks[t1].url = tasks[t2].url
        /\ tasks[t1].pc = "finished" /\ tasks[t2].pc = "finished"
        /\ t1 \in Fetchers /\ t2 \notin Fetchers
        /\ tasks[t2].depth <= maxDepth
        /\ \A w \in writes : w.task # t1
        /\ ~interrupted

\* C2: the tasks executing MirrorWebsite are never more than the
\* concurrency limit, and the semaphore never holds more units than that.
C2_InFlightBounded ==
    /\ Cardinality(InFlight) <= maxConcurrent
    /\ sem <= maxConcurrent

\* The semaphore is full at the largest limit, with every unit's task in
\* flight and one of them waiting for a unit for its child.
C2_Witness ==
    /\ maxConcurrent = MaxConc
    /\ sem = maxConcurrent
    /\ Cardinality(InFlight) = maxConcurrent
    /\ \E t \in DOMAIN tasks : tasks[t].pc = "acquire"

\* C4: a task deeper than the maximum depth never inserts its URL into the
\* visited map, fetches or writes; the root runs at depth 0 and a child at
\* its parent's depth plus one.
C4_DepthBound ==
    /\ \A t \in DOMAIN tasks :
          /\ tasks[t].depth > maxDepth =>
                /\ tasks[t].pc \in {"entry", "done", "release", "finished"}
                /\ t \notin Passed
                /\ \A w \in writes : w.task # t
          /\ t = RootTask => tasks[t].depth = 0
          /\ t # RootTask => /\ Parent(t) \in DOMAIN tasks
                             /\ tasks[t].depth = tasks[Parent(t)].depth + 1
    /\ \A u \in visited : \E t \in DOMAIN tasks : tasks[t].url = u /\ tasks[t].depth <= maxDepth

\* A task deeper than the maximum depth has run to its end, for a URL that
\* nobody has visited.
C4_Witness ==
    \E t \in DOMAIN tasks :
        /\ tasks[t].depth > maxDepth
        /\ tasks[t].pc = "finished"
        /\ tasks[t].url \notin visited
        /\ ~interrupted

\* C5: every URL fetched has the host of the root URL; a link to another
\* host is never fetched and no file is written for it; the page with two
\* internal links and one external link yields exactly three files.
ScenarioRun ==
    /\ site = "scenario" /\ rootURL = RootPlain
    /\ reject = <<>> /\ exclude = <<>>
    /\ maxDepth >= 1
    /\ ~interrupted
    /\ Joined

C5_SameHostOnly ==
    /\ \A g \in gets : Hostname(g.url) = Hostname(rootURL)
    /\ \A w \in writes : Hostname(w.url) = Hostname(rootURL)
    /\ \A t \in DOMAIN tasks : Hostname(tasks[t].url) = Hostname(rootURL)
    /\ ScenarioRun => /\ Cardinality(writes) = 3
                      /\ Cardinality({w.path : w \in writes}) = 3
                      /\ \A g \in gets : g.url # ExternalE

\* The scenario has run to its join, and its root page, which holds the
\* external link, has been fetched and written.
C5_Witness ==
    /\ ScenarioRun
    /\ \E w \in writes : w.task = RootTask
    /\ \E k \in 1..Len(tasks[RootTask].links) : tasks[RootTask].links[k] = ExternalE

\* C7: when the run has joined, the size of the visited map is the number
\* of GET requests issued.
C7_VisitedEqualsFetches ==
    Joined => Cardinality(visited) = Cardinality(gets)

\* A run has joined after two tasks of different parents held the same URL.
C7_Witness ==
    /\ Joined
    /\ ~interrupted
    /\ Cardinality(visited) >= 5
    /\ \E t1, t2 \in DOMAIN tasks :
          /\ t1 # t2 /\ Parent(t1) # Parent(t2)
          /\ tasks[t1].url = tasks[t2].url
          /\ tasks[t1].depth <= maxDepth /\ tasks[t2].depth <= maxDepth

\* The links of a page that the filter rejects although they are on the
\* root's host.
RejectedLinks(t) ==
    {tasks[t].links[k] : k \in {j \in 1..Len(tasks[t].links) :
        /\ shouldReject(tasks[t].links[j], reject, exclude)
        /\ SameHost(tasks[t].links[j], rootURL)}}

HasRejectedExt(p) == \E k \in 1..Len(reject) : ToLower(Ext(p)) = <<Dot>> \o ToLower(reject[k])
HasExcludedPart(p) == \E k \in 1..Len(exclude) : Contains(p, exclude[k])

\* C6, as claimed: no URL that shouldReject rejects is fetched or has a file
\* written for it, and after the run no file of the mirror tree has a
\* rejected extension or an excluded substring in its path.
C6_NothingRejectedInTree ==
    /\ \A g \in gets : ~shouldReject(g.url, reject, exclude)
    /\ \A w \in writes : ~shouldReject(w.url, reject, exclude)
    /\ Joined => \A w \in writes : ~HasRejectedExt(w.path) /\ ~HasExcludedPart(w.path)

\* C6, amended: the filter is applied to the links found, not to the root
\* URL: no task other than the root task holds, fetches or writes a file for
\* a URL that shouldReject rejects.
C6_NoRejectedLinkFollowed ==
    /\ \A t \in DOMAIN tasks : t # RootTask => ~shouldReject(tasks[t].url, reject, exclude)
    /\ \A g \in gets : g.task # RootTask => ~shouldReject(g.url, reject, exclude)
    /\ \A w \in writes : w.task # RootTask => ~shouldReject(w.url, reject, exclude)

\* A page holding a rejected link of the root's host has been written, its
\* accepted links have been followed and written, and the run has joined.
C6_Witness ==
    /\ Joined
    /\ ~interrupted
    /\ \E t \in DOMAIN tasks :
          /\ RejectedLinks(t) # {}
          /\ \E w \in writes : w.task = t
    /\ \E w \in writes : w.task # RootTask

\* C3: a run that no signal interrupts completes: Mirror's wait returns
\* (every task has then called wg.Done).
C3_RunCompletes == <>Joined

\* C8: no two tasks write the same local path.
C8_NoDuplicateWrites ==
    \A w1, w2 \in writes : w1.path = w2.path => w1.task = w2.task

\* C9: once the interruption flag is set, no GET is issued and no file is
\* created or written.
C9_NoIOAfterInterrupt ==
    [][interrupted => (gets' = gets /\ writes' = writes)]_vars

\* C10: once the interruption flag is set, every task winds down and
\* Mirror's wait returns.
C10_InterruptedRunJoins ==
    interrupted ~> (Joined /\ \A t \in DOMAIN tasks : tasks[t].pc \in {"release", "finished"})

\* The tasks that received a response whose status is not 200, and the
\* tasks spawned by task t.
NonOK == {t \in DOMAIN tasks : tasks[t].status \notin {0, 200}}
Children(t) == {c \in DOMAIN tasks : c # RootTask /\ Parent(c) = t}
WoundDown == \A t \in DOMAIN tasks : tasks[t].pc \in {"release", "finished"}

\* C11: a task whose fetch returned 404 or another status that is not 200
\* writes no file and spawns no child, and goes to its end; its siblings
\* and the run as a whole go on to completion: Mirror's wait returns with
\* every task wound down.
C11_NonOKAbandonsOnlyItsBranch ==
    /\ [](\A t \in NonOK :
            /\ \A w \in writes : w.task # t
            /\ Children(t) = {}
            /\ tasks[t].pc \in {"done", "release", "finished"})
    /\ (NonOK # {}) ~> (Joined /\ WoundDown)

\* The local path that the value of element j of a written document
\* designates when it is read as a path relative to the directory of the
\* document's file (the empty path when the value is not a relative path).
Designated(w, j) ==
    Only({IF val.scheme = <<>> /\ val.host = <<>> /\ ~HasPrefix(val.path, <<Slash>>)
          THEN FilepathJoin(<<FilepathDir(w.path), val.path>>)
          ELSE <<>> :
          val \in {w.content[j].val}})

\* The elements of the page of task t from which the link of its child c
\* was extracted.
LinksTo(t, c) ==
    {j \in 1..Len(tasks[t].body) : extractLinks(<<tasks[t].body[j]>>, rootURL) = <<tasks[c].url>>}

\* C12: when a child link of a page returned 404, the page is still written
\* (an uninterrupted run that has joined holds its file), the written
\* document's link to the child designates the local path the child would
\* have had, and no file exists at that path.
C12_ParentOfMissingChildPersisted ==
    \A c \in DOMAIN tasks :
        (c # RootTask /\ tasks[c].status = 404) =>
            /\ (Joined /\ ~interrupted) => \E w \in writes : w.task = Parent(c)
            /\ \A w \in writes :
                  w.task = Parent(c) =>
                      \A j \in LinksTo(Parent(c), c) :
                          Designated(w, j) = LocalFilePath(tasks[c].url, mirrorBaseDir)
            /\ \A w \in writes : w.path # LocalFilePath(tasks[c].url, mirrorBaseDir)

\* C13: Mirror's wait has returned only in states where no task is
\* outstanding: every task spawned, at any depth, has returned from
\* MirrorWebsite, none is waiting to be started, and the WaitGroup's counter
\* is zero; so no task is spawned after the join.
C13_JoinedOnlyWhenNoneOutstanding ==
    Joined => /\ WoundDown
              /\ wg = 0
              /\ RootTask \in DOMAIN tasks

\* An uninterrupted run has joined after tasks were spawned two levels
\* below the root, and one of them is still giving its unit back.
C13_Witness ==
    /\ Joined
    /\ ~interrupted
    /\ \E t \in DOMAIN tasks : tasks[t].depth >= 2
    /\ \E t \in DOMAIN tasks : tasks[t].pc = "release"
    /\ Cardinality(DOMAIN tasks) >= 5

\* The calls of DownloadFile that have begun and not returned.
InProgress == {d \in DOMAIN dls : dls[d].pc \in {"request", "create", "copy"}}

\* C14: in a batch download the calls of DownloadFile in progress are never
\* more than the concurrency limit, and no more units are held than that.
C14_DownloadsInProgressBounded ==
    mode = "batch" => /\ Cardinality(InProgress) <= maxConcurrent
                      /\ sem <= maxConcurrent

\* A list of three URLs under a limit of two: two downloads are in progress
\* and the third goroutine waits for a unit.
C14_Witness ==
    /\ mode = "batch"
    /\ Len(urls) = 3
    /\ maxConcurrent = 2
    /\ Cardinality(InProgress) = 2
    /\ \E d \in DOMAIN dls : dls[d].pc = "acquire"

\* The downloads whose call of DownloadFile returned nil.
Succeeded == {d \in DOMAIN dls : dls[d].pc \in {"lock", "store", "release", "wgdone", "finished"}
                                 /\ dls[d].err = ""}

\* C15: the summary is printed only when every goroutine launched has
\* finished; the count it reports is the number of downloads that returned
\* without error and is at most the total it reports, the number of URLs
\* of the list.
C15_SummaryExact ==
    summary # <<>> =>
        /\ \A d \in DOMAIN dls : dls[d].pc = "finished"
        /\ summary.successful = Cardinality(Succeeded)
        /\ summary.successful <= summary.total
        /\ summary.total = Len(urls)

\* The summary of an uninterrupted batch of three URLs, run with more than
\* one unit, reports the three of them.
C15_Witness ==
    /\ summary # <<>>
    /\ ~interrupted
    /\ maxConcurrent >= 2
    /\ Len(dls) = 3
    /\ summary.successful = 3

\* C16: a batch download produces one file per URL: downloads of distinct
\* URLs of the list create distinct output paths, so that every URL whose
\* download succeeded has a file of its own.
C16_OneFilePerURL ==
    mode = "batch" =>
        \A d1, d2 \in DOMAIN dls :
            (/\ dls[d1].url # dls[d2].url
             /\ dls[d1].path # <<>>
             /\ dls[d2].path # <<>>) => dls[d1].path # dls[d2].path

\* C17: a single download fails closed: a call of DownloadFile that met an
\* unparsable URL, a transport error, a status other than 200 or a refusal
\* of the file system returns an error and never reports success; the
\* process then ends with a status that is not 0; the error of a status
\* other than 200 names the status and no file is created for it; and the
\* process ends with status 0 only after a 200 whose file was created.
C17_SingleDownloadFailsClosed ==
    (mode = "single" /\ dls # <<>>) =>
        /\ dls[1].err # "" => ~dls[1].said
        /\ (exited /\ dls[1].err # "") => exitCode = 1
        /\ dls[1].status \notin {0, 200} =>
              /\ dls[1].pc = "ret"
              /\ dls[1].err = "HTTP"
              /\ dls[1].named = dls[1].status
              /\ writes = {}
        /\ (ParseFails(dls[1].url) /\ dls[1].pc # "request") =>
              dls[1].err = "invalid URL" /\ gets = {} /\ writes = {}
        /\ exitCode = 0 =>
              /\ dls[1].err = "" /\ dls[1].said
              /\ dls[1].status = 200
              /\ \E w \in writes : w.path = dls[1].path

\* The download of a URL that the server answers with 404 has ended the
\* process with status 1, the error naming 404, without a file.
C17_Witness ==
    /\ mode = "single"
    /\ dls # <<>>
    /\ ~interrupted
    /\ exited
    /\ exitCode = 1
    /\ dls[1].named = 404
    /\ writes = {}

\* The links of the document of a call of rewriteHTML that lead to the
\* host mirrored and that rewriteHTML rewrites.
InScope ==
    {j \in 1..Len(call.content) :
        /\ RewrittenAttr(call.content[j].tag, call.content[j].key)
        /\ Hostname(ResolveReference(call.currentURL, call.content[j].val)) = Hostname(call.baseURL)}

\* The file MirrorWebsite writes the current document to, holding what
\* rewriteHTML returned.
Persisted ==
    [path |-> LocalFilePath(call.currentURL, MirrorBaseDirOf(call.baseURL)),
     content |-> results[1]]

\* C18: the mirrored documents are self-navigable: the rewritten value of
\* every in-scope link of a document, read relative to the directory of the
\* file MirrorWebsite writes the document to, designates the file
\* MirrorWebsite writes the linked URL to, whatever the current URL is (the
\* site root and the URLs that end in a slash included).
C18_RewrittenLinksSelfNavigable ==
    (call.fn = "rewriteHTML" /\ results # <<>>) =>
        \A j \in InScope :
            Designated(Persisted, j) =
                LocalFilePath(ResolveReference(call.currentURL, call.content[j].val),
                              MirrorBaseDirOf(call.baseURL))

\* C19: rewriting is idempotent: rewriteHTML applied to what it returned,
\* with the same current URL and base URL, returns it unchanged.
C19_RewriteIdempotent ==
    (call.fn = "rewriteHTML" /\ Len(results) = 2) => results[2] = results[1]

\* C20: shouldReject is monotonic in both lists: a URL rejected with the
\* lists is rejected with the lists that hold one more extension or one more
\* substring, and so with every pair of lists that contain them.
C20_ShouldRejectMonotonic ==
    (call.fn = "shouldReject" /\ Len(results) = 2) => (results[1] => results[2])

\* A URL rejected for its extension has been tried again with a second
\* extension at the end of the reject list, and is still rejected.
C20_Witness ==
    /\ call.fn = "shouldReject"
    /\ Len(results) = 2
    /\ results[1]
    /\ results[2]
    /\ call.exclude = <<>>
    /\ Len(call.reject) = 2
    /\ ToLower(call.reject[2]) # ToLower(call.reject[1])
    /\ ToLower(Ext(call.urlStr.path)) = <<Dot>> \o ToLower(call.reject[1])

\* e is the whole extension of path p, letter case apart: p ends with a
\* dot followed by e, and e holds neither a dot nor a slash.
WholeExtension(p, e) ==
    \E i \in 1..Len(p) :
        /\ p[i] = Dot
        /\ \A j \in (i + 1)..Len(p) : p[j] \notin {Dot, Slash}
        /\ ToLower(SubSeq(p, i + 1, Len(p))) = ToLower(e)

\* x occurs in p as it is written.
PlainSubstring(p, x) ==
    \E i \in 1..(Len(p) + 1) : \E j \in (i - 1)..Len(p) : SubSeq(p, i, j) = x

\* C21: shouldReject returns true exactly when the URL does not parse, or
\* some reject entry is the whole extension of its path (letter case apart),
\* or some exclude entry occurs in its path as a plain substring.
C21_ShouldRejectExactly ==
    (call.fn = "shouldReject" /\ results # <<>>) =>
        (results[Len(results)] <=>
            \/ ParseFails(call.urlStr)
            \/ \E k \in 1..Len(call.reject) : WholeExtension(call.urlStr.path, call.reject[k])
            \/ \E k \in 1..Len(call.exclude) : PlainSubstring(call.urlStr.path, call.exclude[k]))

\* A URL with extension .apng has been tried with png in the reject list
\* and is not rejected.
C21_Witness ==
    /\ call.fn = "shouldReject"
    /\ results # <<>>
    /\ ~results[Len(results)]
    /\ call.urlStr.path = PathApng
    /\ \E k \in 1..Len(call.reject) : call.reject[k] = ExtPng

\* The bytes delivered by the reads made, and the reads that delivered some.
RECURSIVE Delivered(_)
Delivered(reads) == IF reads = <<>> THEN 0 ELSE Head(reads).n + Delivered(Tail(reads))
NonEmptyReads == {k \in 1..Len(results) : results[k].n > 0}

\* C22: with a limit of R > 0 bytes in a second, after reads that delivered
\* N bytes the time since the reader was made is at least N / R, less one
\* tick of rounding for each read; with a limit of zero no read is delayed;
\* either way every read returns the count and the end of the underlying
\* reader.
C22_RateLimiterLowerBound ==
    call.fn = "Read" =>
        /\ call.rateLimit > 0 =>
              (now - call.created + Cardinality(NonEmptyReads)) * call.rateLimit
                  >= Delivered(results) * Second
        /\ call.rateLimit = 0 => \A k \in 1..Len(results) : results[k].delay = 0
        /\ \A k \in 1..Len(results) :
              /\ results[k].n = call.reader[k]
              /\ results[k].err <=> k = Len(call.reader)

\* Three bytes have been delivered in two reads at two bytes in a second,
\* the second read was made to wait, and the body is at its end.
C22_Witness ==
    /\ call.fn = "Read"
    /\ call.rateLimit = 2
    /\ Len(results) = 2
    /\ Delivered(results) = 3
    /\ results[2].delay > 0
    /\ results[2].err

\* C23: every file a mirror run writes is inside the mirror directory, which
\* is named for the hostname of the root URL (or has the fallback name) from
\* the start of the run on, whatever the path of the URL fetched.
C23_WritesUnderMirrorRoot ==
    mode = "mirror" =>
        /\ mainpc # "start" => mirrorBaseDir = MirrorBaseDirOf(rootURL)
        /\ \A w \in writes : HasPrefix(w.path, mirrorBaseDir \o <<Slash>>)

\* The rate limits that are not a number with an optional k or M, and the
\* command lines that lack the URL they need.
Malformed == {<<"x">>, <<"2", ".">>, <<"k">>}
MissingURL == mode \in {"mirror", "single"} /\ args = <<>>

\* C24: in every mode, when the rate limit is malformed or the URL argument
\* is missing, the program ends with a status that is not 0 and no request
\* is ever issued.
C24_ConfigErrorsPrecedeNetwork ==
    (mode \in {"mirror", "single", "batch"} /\ (rateLimitStr \in Malformed \/ MissingURL)) =>
        /\ gets = {}
        /\ exited => exitCode = 1

\* The local paths computed for URL u in the run so far, each under the
\* mirror directory: by MirrorWebsite when it wrote u's document, by
\* rewriteHTML for a link to u in a document written, and by rewriteHTML
\* for u as the current URL of the document it rewrote.
ComputedPaths(u) ==
    {w.path : w \in {w \in writes : w.url = u}}
    \cup {FilepathJoin(<<mirrorBaseDir, LinkLocalPath(u)>>) :
            w \in {w \in writes :
                     \E j \in 1..Len(tasks[w.task].body) :
                        /\ tasks[w.task].html
                        /\ RewrittenAttr(tasks[w.task].body[j].tag, tasks[w.task].body[j].key)
                        /\ ResolveReference(w.url, tasks[w.task].body[j].val) = u}}
    \cup {FilepathJoin(<<mirrorBaseDir, CurrentFileLocalPath(u)>>) :
            w \in {w \in writes :
                     /\ w.url = u
                     /\ tasks[w.task].html
                     /\ \E j \in 1..Len(tasks[w.task].body) :
                           /\ RewrittenAttr(tasks[w.task].body[j].tag, tasks[w.task].body[j].key)
                           /\ Hostname(ResolveReference(w.url, tasks[w.task].body[j].val))
                                 = Hostname(rootURL)}}

\* C25: the local path of a URL is the same every time the run computes it
\* (when MirrorWebsite persists it and when rewriteHTML rewrites), and the
\* mirror directory it depends on does not change once the run has started.
C25_LocalPathComputedOnce ==
    mode = "mirror" =>
        /\ \A t \in DOMAIN tasks : Cardinality(ComputedPaths(tasks[t].url)) <= 1
        /\ mainpc # "start" => mirrorBaseDir = MirrorBaseDirOf(rootURL)

\* Task t takes its step from position pc.
Leaves(t) ==
    /\ t \in DOMAIN tasks'
    /\ tasks'[t].pc # tasks[t].pc

\* C26: a task that finds the interruption flag set at its entry check ends
\* without side effects: it goes to its end with the visited map, the
\* requests and the files as they were; the depth check comes before the
\* visited map (a task too deep does not insert its URL); and a task at its
\* end signals the WaitGroup and then frees its unit.
C26_InterruptedEntryAborts ==
    [][\A t \in DOMAIN tasks :
          Leaves(t) =>
              CASE tasks[t].pc = "entry" ->
                      /\ visited' = visited
                      /\ IF interrupted
                         THEN /\ tasks'[t] = [tasks[t] EXCEPT !.pc = "done"]
                              /\ gets' = gets
                              /\ writes' = writes
                         ELSE tasks'[t].pc =
                                  (IF tasks[t].depth > maxDepth THEN "done" ELSE "visit")
                [] tasks[t].pc = "done" ->
                      tasks'[t].pc = "release" /\ wg' = wg - 1 /\ sem' = sem
                [] tasks[t].pc = "release" ->
                      tasks'[t].pc = "finished" /\ sem' = sem - 1
                [] OTHER -> TRUE]_vars

\* A task within the depth limit, whose URL was never visited, has been
\* turned away at its entry by the interruption and has run to its end.
C26_Witness ==
    \E t \in DOMAIN tasks :
        /\ interrupted
        /\ tasks[t].pc = "finished"
        /\ tasks[t].depth <= maxDepth
        /\ tasks[t].url \notin visited
        /\ \A g \in gets : g.task # t
        /\ \A w \in writes : w.task # t

\* The tasks that hold a unit of the semaphore, and the links of task t
\* that pass the filter and the host test.
Holding == {t \in DOMAIN tasks : tasks[t].pc # "finished"}
AcceptedLink(t, k) ==
    /\ k \in 1..Len(tasks[t].links)
    /\ SameHost(tasks[t].links[k], rootURL)
    /\ ~LinkRejected(tasks[t].links[k])
Accepted(t) == {k \in 1..Len(tasks[t].links) : AcceptedLink(t, k)}

\* C27: a worker holds one unit of the semaphore from before it starts to
\* its release, its fetch and its write included, and frees it once: the
\* units held are as many as the tasks that have not released; a child
\* exists only once its parent has acquired its unit and moved on; and a
\* task that has released has a child for every accepted link it came to.
C27_UnitHeldUntilChildrenHaveUnits ==
    mode = "mirror" =>
        /\ sem = Cardinality(Holding)
        /\ \A c \in DOMAIN tasks :
              c # RootTask =>
                  /\ Parent(c) \in DOMAIN tasks
                  /\ \/ tasks[Parent(c)].i > c[Len(c)]
                     \/ tasks[Parent(c)].pc \notin {"loop", "acquire"}
                  /\ AcceptedLink(Parent(c), c[Len(c)])
        /\ \A t \in DOMAIN tasks :
              tasks[t].pc \in {"write", "done", "release", "finished"} =>
                  /\ \A k \in 1..Len(tasks[t].links) :
                        (k < tasks[t].i /\ ChildOf(t, k) \notin DOMAIN tasks) =>
                            ~AcceptedLink(t, k)
                  /\ (\E w \in writes : w.task = t) => tasks[t].i > Len(tasks[t].links)

\* A task has written its page and released its unit while the child it
\* spawned, whose unit it acquired, still holds that unit.
C27_Witness ==
    \E t \in DOMAIN tasks :
        /\ tasks[t].pc = "finished"
        /\ \E w \in writes : w.task = t
        /\ \E k \in Accepted(t) :
              /\ ChildOf(t, k) \in DOMAIN tasks
              /\ tasks[ChildOf(t, k)].pc = "entry"

\* Element e carries its link in the attribute extractLinks reads, and the
\* link, resolved against the current URL of the call, is on the host
\* mirrored.
ExtractedOnHost(e) ==
    /\ LinkAttr(e.tag) # ""
    /\ e.key = LinkAttr(e.tag)
    /\ Hostname(ResolveReference(call.currentURL, e.val)) = Hostname(call.baseURL)

\* C28: rewriteHTML rewrites the attributes extractLinks reads (href of a
\* and link, src of img and script, action of form) when the link is on the
\* host mirrored, and leaves every other attribute and every off-host link
\* as it was.
C28_RewriterCoversExtractor ==
    (call.fn = "rewriteHTML" /\ results # <<>>) =>
        \A j \in 1..Len(call.content) :
            results[1][j] =
                IF ExtractedOnHost(call.content[j])
                THEN [call.content[j] EXCEPT
                         !.val = RewrittenVal(call.content[j].val, call.currentURL, call.baseURL)]
                ELSE call.content[j]

\* The elements of the page of task t whose link rewriteHTML rewrites: the
\* link, resolved against the page's URL, is on the host mirrored.
RewrittenLinks(t) ==
    {j \in 1..Len(tasks[t].body) :
        /\ RewrittenAttr(tasks[t].body[j].tag, tasks[t].body[j].key)
        /\ Hostname(ResolveReference(tasks[t].url, tasks[t].body[j].val)) = Hostname(rootURL)}

\* C29: the crawled and the rewritten targets agree: for every link of a
\* page written, the URL MirrorWebsite derives for crawling (extractLinks
\* with the base URL it is given) is the URL rewriteHTML resolves, and when
\* the run has written the file of that URL the rewritten link, read from
\* the page's file, leads to it.
C29_CrawledAndRewrittenAgree ==
    mode = "mirror" =>
        \A w \in writes :
            tasks[w.task].html =>
                \A j \in RewrittenLinks(w.task) :
                    /\ extractLinks(<<tasks[w.task].body[j]>>, rootURL)
                          = <<ResolveReference(w.url, tasks[w.task].body[j].val)>>
                    /\ \A c \in writes :
                          <<c.url>> = extractLinks(<<tasks[w.task].body[j]>>, rootURL) =>
                              Designated(w, j) = c.path

\* C30: a batch download terminates.  Under the scheduler, every run of
\* DownloadMultipleFiles ends: either main returns with exit code 0, and then
\* the summary has been printed, every goroutine launched has acquired and
\* released its unit of the semaphore (none is held) and has called
\* wg.Done, or the signal handler has ended the process.  A turn of the loop
\* that finds the interruption flag set launches no download, and the
\* summary is not printed before every launched goroutine is done.
AllDone == \A d \in DOMAIN dls : dls[d].pc = "finished"
C30_BatchTerminates ==
    /\ (mode = "batch") ~>
           (exited /\ (exitCode = 0 =>
               summary # <<>> /\ summary.total = Len(urls) /\ AllDone /\ sem = 0 /\ wg = 0))
    /\ [][mode = "batch" /\ interrupted => Len(dls') = Len(dls)]_vars
    /\ [](mode = "batch" /\ summary # <<>> => AllDone)

\* An interrupted batch whose loop stopped early and whose launched
\* downloads were awaited: the summary is printed, main has returned.
C30_Witness ==
    /\ mode = "batch"
    /\ interrupted
    /\ exited /\ exitCode = 0
    /\ summary # <<>>
    /\ 0 < Len(dls) /\ Len(dls) < Len(urls)
    /\ Len(urls) > maxConcurrent
    /\ AllDone

====
